---- MODULE Spec2Model ----
(***************************************************************************)
(* lakekeeper-data-loader (loader.py): one run of the command line tool,   *)
(* from the parsed arguments to the process exit.                           *)
(*                                                                         *)
(* Text (object keys, paths, file names, option values) is a sequence of   *)
(* tokens: "/" is the path separator, ".parquet" the extension, the other  *)
(* tokens are runs of ordinary characters.  startswith, endswith,           *)
(* os.path.basename and os.path.join are computed on those sequences.       *)
(*                                                                         *)
(* The collaborators (S3, the local file system, the REST catalog, the     *)
(* parquet library) answer each call with a value drawn from a small set,  *)
(* or raise: an exception the program does not catch ends the run.          *)
(***************************************************************************)
EXTENDS Integers, Sequences, FiniteSets, TLC

VARIABLES
    args,           \* argparse.Namespace returned by parse_arguments()
    pc,             \* position of the run in the script
    exit_code,      \* process exit status, -1 while running
    unhandled,      \* name of the exception that ended the run, <<>> if none
    stdout,         \* the lines printed, in order
    s3,             \* keys of the objects of the bucket, as seen by this run
    resp,           \* resp["Contents"] of download_from_s3, as a key sequence
    j,              \* index in resp of the object the download loop is at
    staging,        \* the directory downloads go to: kind, path
    staging0,       \* the entries of that directory when the run opened it
    fs,             \* local file system: directory path -> (file name -> content)
    parquet_files,  \* the file list handed to the catalog loader
    i,              \* index in parquet_files of the file the loader loop is at
    catalog,        \* the catalog service: namespace, table, schema, data files
    catalog0,       \* the catalog as it was when the run started
    calls           \* every collaborator call made so far, in order

vars == <<args, pc, exit_code, unhandled, stdout, s3, resp, j, staging, staging0, fs,
          parquet_files, i, catalog, catalog0, calls>>

-----------------------------------------------------------------------------
(* Bounds of the model *)

\* most objects the bucket holds
MaxObjects == 2
\* most entries the directory given with --local-path holds
MaxLocal == 2

-----------------------------------------------------------------------------
(* Text *)

PARQUET_EXTENSION == <<".parquet">>

\* str.startswith
StartsWith(s, p) == Len(p) <= Len(s) /\ SubSeq(s, 1, Len(p)) = p

\* str.endswith
EndsWith(s, e) == Len(e) <= Len(s) /\ SubSeq(s, Len(s) - Len(e) + 1, Len(s)) = e

\* position of the last "/" of s, 0 if none
LastSep(s) ==
    LET seps == {k \in 1..Len(s) : s[k] = "/"}
    IN  IF seps = {} THEN 0 ELSE CHOOSE k \in seps : \A m \in seps : m <= k

\* os.path.basename
basename(s) == SubSeq(s, LastSep(s) + 1, Len(s))

\* os.path.dirname, for a path built by join(d, f) below
dirname(s) == SubSeq(s, 1, LastSep(s) - 1)

\* os.path.join(d, f)
join(d, f) ==
    IF StartsWith(f, <<"/">>) THEN f
    ELSE IF d = <<>> \/ EndsWith(d, <<"/">>) THEN d \o f
    ELSE d \o <<"/">> \o f

\* the sequences that list the set S once each, in any order (os.listdir
\* gives no order)
Orderings(S) ==
    {s \in [1..Cardinality(S) -> S] : \A a, b \in DOMAIN s : s[a] = s[b] => a = b}

Range(seq) == {seq[k] : k \in DOMAIN seq}

-----------------------------------------------------------------------------
(* Arguments: parse_arguments() *)

\* default=None, and the empty string: both false in a condition
None == <<>>
\* default=argparse.SUPPRESS: the attribute does not exist on the Namespace
SUPPRESS == <<"==SUPPRESS==">>

Truthy(v) == v # None

ArgSpace ==
    [ local_path : {None, <<"l">>},
      bucket     : {None, <<"bkt">>},
      prefix     : {None, <<"p">>, <<"p", "/">>},
      endpoint   : {SUPPRESS, <<"uri">>},
      token      : {SUPPRESS, <<"tok">>},
      warehouse  : {SUPPRESS, <<"wh">>},
      namespace  : {SUPPRESS, None, <<"ns">>},
      table_name : {SUPPRESS, None, <<"t">>},
      directory  : {None, <<"d">>},
      list_only  : BOOLEAN ]

-----------------------------------------------------------------------------
(* Parquet files *)

Field(n, t, p) == [name |-> n, type |-> t, precision |-> p]

\* pa.types.is_decimal
is_decimal(t) == t \in {"decimal128", "decimal256"}

\* the schemas a file of the model may have; a field that is no decimal has
\* no precision, written 0
SchemaSet ==
    { <<Field("id", "int64", 0)>>,
      <<Field("amt", "decimal128", 19)>>,
      <<Field("id", "int64", 0), Field("amt", "decimal128", 18),
        Field("big", "decimal128", 30)>> }

\* a file: its schema and how it was last written
FileContents == [schema : SchemaSet, written : {"source"}]


\* what a failed pq.write_table may leave behind
Truncated == [schema |-> <<>>, written |-> "partial"]

\* fixed_columns without the test of the precision (line 129)
fixed_columns_any_precision(schema) ==
    SelectSeq(schema, LAMBDA field : is_decimal(field.type))

\* the qualifying columns found by the loop of fix_decimal_physical_type
fixed_columns(schema) ==
    SelectSeq(schema, LAMBDA field : is_decimal(field.type) /\ field.precision <= 18)

\* the file as pq.write_table(table, parquet_file,
\* use_deprecated_int96_timestamps=True) leaves it
rewritten(content) == [content EXCEPT !.written = "int96"]

-----------------------------------------------------------------------------
(* Object storage *)

\* the keys the model knows, in the order list_objects_v2 returns keys
\* (ascending UTF-8 binary order)
KeyOrder ==
    << <<"p", "/", "/", "c", ".parquet">>,
       <<"p", "/", "a", ".parquet">>,
       <<"p", "/", "a", ".parquet", ".txt">>,
       <<"p", "/", "b", ".parquet">>,
       <<"p", "/", "d", "/", "a", ".parquet">>,
       <<"p", "/", "z", ".txt">>,
       <<"p", "a", ".parquet">>,
       <<"q", "/", "a", ".parquet">> >>

Keys == Range(KeyOrder)

Buckets == {B \in SUBSET Keys : Cardinality(B) <= MaxObjects}

\* resp.get("Contents", []) of s3client.list_objects_v2(Bucket, Prefix) on a
\* bucket holding the keys B
list_objects_v2(B, prefix) ==
    SelectSeq(KeyOrder, LAMBDA key : key \in B /\ StartsWith(key, prefix))

\* full_path of list_parquets_in_s3
s3_uri(source_bucket, key) == <<"s3://">> \o source_bucket \o <<"/">> \o key

\* list_parquets_in_s3 without the test of the extension (line 145)
list_parquets_in_s3_unfiltered(contents, source_bucket) ==
    [k \in DOMAIN contents |-> s3_uri(source_bucket, contents[k])]

\* list_parquets_in_s3, given the listing response
list_parquets_in_s3(contents, source_bucket) ==
    LET kept == SelectSeq(contents, LAMBDA key : EndsWith(key, PARQUET_EXTENSION))
    IN  [k \in DOMAIN kept |-> s3_uri(source_bucket, kept[k])]

\* download_wanted with the filter of list_parquets_in_s3: the extension only
download_wanted_extension_only(key, prefix) ==
    EndsWith(key, PARQUET_EXTENSION)

\* the objects the loop of download_from_s3 does not skip
download_wanted(key, prefix) ==
    ~(~EndsWith(key, PARQUET_EXTENSION) \/ ~StartsWith(key, prefix \o <<"/">>))

-----------------------------------------------------------------------------
(* Local file system *)

EmptyDir == [f \in {} |-> Truncated]

\* names a directory may hold before the run
ExistingNames ==
    { <<"a", ".parquet">>, <<"e", ".parquet">>, <<"notes", ".txt">>,
      <<"e", ".parquet", ".bak">> }

\* the states of a directory that holds at most n entries
DirStates(n) ==
    UNION { [N -> FileContents] :
            N \in {M \in SUBSET ExistingNames : Cardinality(M) <= n} }

\* the states of the directory given with --directory before the run: not
\* there or empty (os.makedirs leaves it empty either way), or left with one
\* entry by an earlier run
StagingStates == DirStates(1)

\* the list comprehension over os.listdir(d) of get_parquet_files_from_local
\* and of download_from_s3: the paths, as a set (os.listdir gives no order)
parquet_paths(f, d) ==
    {join(d, name) : name \in {n \in DOMAIN f[d] : EndsWith(n, PARQUET_EXTENSION)}}

\* the file at a path
ReadFile(f, path) == f[dirname(path)][basename(path)]

\* the file system after a write of content c at path
WriteFile(f, path, c) ==
    LET d == dirname(path)
        n == basename(path)
    IN  [f EXCEPT ![d] = [x \in DOMAIN f[d] \cup {n} |->
                              IF x = n THEN c ELSE f[d][x]]]

\* tempfile.TemporaryDirectory()
TempPath == <<"/", "tmp", "/", "tmpdir">>

\* Release with tempfile.mkdtemp() in place of the with block: nothing is removed
ReleaseNothing(f) == f

\* leaving main: the with block of the temporary directory removes it, a
\* directory given with --directory is not inside any with block
Release(f) ==
    IF staging.kind = "temp"
    THEN [d \in DOMAIN f \ {staging.path} |-> f[d]]
    ELSE f

-----------------------------------------------------------------------------
(* Catalog *)

NoCatalogTable == [ns |-> FALSE, table |-> FALSE, schema |-> <<>>, files |-> <<>>]

Catalogs ==
    { NoCatalogTable,
      [ns |-> TRUE, table |-> TRUE,
       schema |-> <<Field("id", "int64", 0)>>,
       files |-> << <<"old", ".parquet">> >>] }

-----------------------------------------------------------------------------
(* Output, calls and exit *)

Line(tag, text) == [tag |-> tag, text |-> text]

Call(op, arg, ok) == [op |-> op, arg |-> arg, ok |-> ok]

\* the process ends: exit(code), the end of the script (code 0), or an
\* exception nobody catches (the interpreter prints the traceback and exits 1)
Exit(code, exc, lines, f) ==
    /\ pc' = "done"
    /\ exit_code' = code
    /\ unhandled' = exc
    /\ stdout' = stdout \o lines
    /\ fs' = Release(f)

Raise(exc, f) == Exit(1, <<exc>>, <<>>, f)

-----------------------------------------------------------------------------
(* The run *)

Init ==
    /\ args \in ArgSpace
    /\ pc = "main"
    /\ exit_code = -1
    /\ unhandled = None
    /\ stdout = <<>>
    /\ s3 = {}
    /\ resp = <<>>
    /\ j = 0
    /\ staging = [kind |-> "none", path |-> None]
    /\ staging0 = EmptyDir
    /\ fs = <<>>
    /\ parquet_files = <<>>
    /\ i = 0
    /\ catalog \in Catalogs
    /\ catalog0 = catalog
    /\ calls = <<>>

\* lines 209-212
ListOnlyCheck ==
    /\ pc = "main"
    /\ args.list_only
    /\ IF ~Truthy(args.bucket) \/ ~Truthy(args.prefix)
       THEN Exit(1, None, <<Line("ERROR", <<"--bucket", "--prefix">>)>>, fs)
       ELSE /\ pc' = "list_only"
            /\ UNCHANGED <<exit_code, unhandled, stdout, fs>>
    /\ UNCHANGED <<args, s3, resp, j, staging, parquet_files, i, catalog,
                   catalog0, calls, staging0>>

\* lines 214-218
ListOnly ==
    /\ pc = "list_only"
    /\ \E B \in Buckets :
        /\ s3' = B
        /\ \/ /\ calls' = Append(calls, Call("list_objects_v2", args.prefix, TRUE))
              /\ Exit(0, None,
                      <<Line("LIST ONLY", <<>>)>> \o
                      [k \in DOMAIN list_parquets_in_s3(
                                        list_objects_v2(B, args.prefix), args.bucket)
                         |-> Line("", list_parquets_in_s3(
                                        list_objects_v2(B, args.prefix), args.bucket)[k])],
                      fs)
           \/ /\ calls' = Append(calls, Call("list_objects_v2", args.prefix, FALSE))
              /\ Raise("ClientError", fs)
    /\ UNCHANGED <<args, resp, j, staging, parquet_files, i, catalog, catalog0, staging0>>

\* lines 220-222
NamespaceCheck ==
    /\ pc = "main"
    /\ ~args.list_only
    /\ IF args.namespace = SUPPRESS
       THEN Raise("AttributeError", fs)
       ELSE IF ~Truthy(args.namespace)
       THEN Exit(1, None, <<Line("ERROR", <<"--namespace", "--table-name">>)>>, fs)
       ELSE IF args.table_name = SUPPRESS
       THEN Raise("AttributeError", fs)
       ELSE IF ~Truthy(args.table_name)
       THEN Exit(1, None, <<Line("ERROR", <<"--namespace", "--table-name">>)>>, fs)
       ELSE /\ pc' = "connect"
            /\ UNCHANGED <<exit_code, unhandled, stdout, fs>>
    /\ UNCHANGED <<args, s3, resp, j, staging, parquet_files, i, catalog,
                   catalog0, calls, staging0>>

\* lines 224-229
Connect ==
    /\ pc = "connect"
    /\ IF SUPPRESS \in {args.warehouse, args.endpoint, args.token}
       THEN /\ Raise("AttributeError", fs)
            /\ UNCHANGED calls
       ELSE \/ /\ calls' = Append(calls, Call("RestCatalog", args.endpoint, TRUE))
               /\ pc' = "source"
               /\ UNCHANGED <<exit_code, unhandled, stdout, fs>>
            \/ /\ calls' = Append(calls, Call("RestCatalog", args.endpoint, FALSE))
               /\ Raise("ConnectionError", fs)
    /\ UNCHANGED <<args, s3, resp, j, staging, parquet_files, i, catalog, catalog0, staging0>>


\* lines 231-232, and the end of the script after them
LocalSource ==
    /\ pc = "source"
    /\ Truthy(args.local_path)
    /\ \/ \E D \in DirStates(MaxLocal) :
            LET f == (args.local_path :> D)
            IN  /\ calls' = Append(calls, Call("listdir", args.local_path, TRUE))
                /\ parquet_files' \in Orderings(parquet_paths(f, args.local_path))
                /\ Exit(0, None, <<>>, f)
       \/ /\ calls' = Append(calls, Call("listdir", args.local_path, FALSE))
          /\ Raise("FileNotFoundError", fs)
          /\ UNCHANGED parquet_files
    /\ UNCHANGED <<args, s3, resp, j, staging, i, catalog, catalog0, staging0>>

\* lines 233-235 and 238-239: the staging directory is made or reused
OpenStaging ==
    /\ pc = "source"
    /\ ~Truthy(args.local_path)
    /\ Truthy(args.bucket) /\ Truthy(args.prefix)
    /\ IF Truthy(args.directory)
       THEN \/ \E D \in StagingStates :
                 /\ fs' = (args.directory :> D)
                 /\ staging' = [kind |-> "user", path |-> args.directory]
                 /\ staging0' = D
                 /\ calls' = Append(calls, Call("makedirs", args.directory, TRUE))
                 /\ pc' = "download"
                 /\ UNCHANGED <<exit_code, unhandled, stdout>>
            \/ /\ calls' = Append(calls, Call("makedirs", args.directory, FALSE))
               /\ Raise("PermissionError", fs)
               /\ UNCHANGED <<staging, staging0>>
       ELSE /\ fs' = (TempPath :> EmptyDir)
            /\ staging' = [kind |-> "temp", path |-> TempPath]
            /\ staging0' = EmptyDir
            /\ calls' = Append(calls, Call("TemporaryDirectory", TempPath, TRUE))
            /\ pc' = "download"
            /\ UNCHANGED <<exit_code, unhandled, stdout>>
    /\ UNCHANGED <<args, s3, resp, j, parquet_files, i, catalog, catalog0>>

\* lines 242-244
NoSource ==
    /\ pc = "source"
    /\ ~Truthy(args.local_path)
    /\ ~(Truthy(args.bucket) /\ Truthy(args.prefix))
    /\ Exit(1, None, <<Line("ERROR", <<"--local-path", "--bucket", "--prefix">>)>>, fs)
    /\ UNCHANGED <<args, s3, resp, j, staging, parquet_files, i, catalog,
                   catalog0, calls, staging0>>

\* lines 160-161 of download_from_s3
DownloadList ==
    /\ pc = "download"
    /\ \E B \in Buckets :
        /\ s3' = B
        /\ \/ /\ calls' = Append(calls, Call("list_objects_v2", args.prefix, TRUE))
              /\ resp' = list_objects_v2(B, args.prefix)
              /\ j' = 1
              /\ pc' = "download_loop"
              /\ UNCHANGED <<exit_code, unhandled, stdout, fs>>
           \/ /\ calls' = Append(calls, Call("list_objects_v2", args.prefix, FALSE))
              /\ Raise("ClientError", fs)
              /\ UNCHANGED <<resp, j>>
    /\ UNCHANGED <<args, staging, parquet_files, i, catalog, catalog0, staging0>>

\* lines 162-168: one turn of the download loop
DownloadObject ==
    /\ pc = "download_loop"
    /\ j <= Len(resp)
    /\ LET key == resp[j]
           local_path == join(staging.path, basename(key))
       IN  IF ~download_wanted(key, args.prefix)
           THEN /\ j' = j + 1
                /\ UNCHANGED <<pc, exit_code, unhandled, stdout, fs, calls>>
           ELSE \/ \E c \in FileContents :
                     /\ fs' = WriteFile(fs, local_path, c)
                     /\ calls' = Append(calls, Call("download_file", key, TRUE))
                     /\ stdout' = Append(stdout, Line("DOWNLOAD", local_path))
                     /\ j' = j + 1
                     /\ UNCHANGED <<pc, exit_code, unhandled>>
                \/ /\ calls' = Append(calls, Call("download_file", key, FALSE))
                   /\ Raise("ClientError", fs)
                   /\ UNCHANGED j
    /\ UNCHANGED <<args, s3, resp, staging, parquet_files, i, catalog, catalog0, staging0>>

\* lines 169-173, and the assignment of line 236 or 240
DownloadReturn ==
    /\ pc = "download_loop"
    /\ j > Len(resp)
    /\ parquet_files' \in Orderings(parquet_paths(fs, staging.path))
    /\ calls' = Append(calls, Call("listdir", staging.path, TRUE))
    /\ pc' = "loader"
    /\ UNCHANGED <<args, exit_code, unhandled, stdout, s3, resp, j, staging, fs,
                   i, catalog, catalog0, staging0>>

\* LoaderEntry without the test of line 177
LoaderEntryUnchecked ==
    /\ pc = "loader"
    /\ pc' = "create_namespace"
    /\ UNCHANGED <<args, exit_code, unhandled, stdout, s3, resp, j, staging,
                   staging0, fs, parquet_files, i, catalog, catalog0, calls>>

\* lines 177-179
LoaderEntry ==
    /\ pc = "loader"
    /\ IF parquet_files = <<>>
       THEN Exit(1, None, <<Line("ERROR", <<"No Parquet files">>)>>, fs)
       ELSE /\ pc' = "create_namespace"
            /\ UNCHANGED <<exit_code, unhandled, stdout, fs>>
    /\ UNCHANGED <<args, s3, resp, j, staging, parquet_files, i, catalog,
                   catalog0, calls, staging0>>

\* lines 181-182
CreateNamespace ==
    /\ pc = "create_namespace"
    /\ \/ /\ calls' = Append(calls, Call("create_namespace_if_not_exists",
                                         args.namespace, TRUE))
          /\ catalog' = [catalog EXCEPT !.ns = TRUE]
          /\ stdout' = Append(stdout, Line("CREATE NAMESPACE", args.namespace))
          /\ pc' = "table_exists"
          /\ UNCHANGED <<exit_code, unhandled, fs>>
       \/ /\ calls' = Append(calls, Call("create_namespace_if_not_exists",
                                         args.namespace, FALSE))
          /\ Raise("CatalogError", fs)
          /\ UNCHANGED catalog
    /\ UNCHANGED <<args, s3, resp, j, staging, parquet_files, i, catalog0, staging0>>

\* line 184
table_identifier == args.namespace \o <<".">> \o args.table_name

\* TableExists without the exit of line 188
TableExistsNoAbort ==
    /\ pc = "table_exists"
    /\ \/ /\ calls' = Append(calls, Call("table_exists", table_identifier, TRUE))
          /\ pc' = "create_table"
          /\ UNCHANGED <<exit_code, unhandled, stdout, fs>>
       \/ /\ calls' = Append(calls, Call("table_exists", table_identifier, FALSE))
          /\ Raise("CatalogError", fs)
    /\ UNCHANGED <<args, s3, resp, j, staging, staging0, parquet_files, i,
                   catalog, catalog0>>

\* lines 186-188
TableExists ==
    /\ pc = "table_exists"
    /\ \/ /\ calls' = Append(calls, Call("table_exists", table_identifier, TRUE))
          /\ IF catalog.table
             THEN Exit(1, None, <<Line("ERROR", <<"already exists">>)>>, fs)
             ELSE /\ pc' = "create_table"
                  /\ UNCHANGED <<exit_code, unhandled, stdout, fs>>
       \/ /\ calls' = Append(calls, Call("table_exists", table_identifier, FALSE))
          /\ Raise("CatalogError", fs)
    /\ UNCHANGED <<args, s3, resp, j, staging, parquet_files, i, catalog, catalog0, staging0>>

\* CreateTable followed by a loop that registers the first file as it is and
\* normalizes only the rest
CreateTableFirstFileAsIs ==
    /\ pc = "create_table"
    /\ LET first_parquet == ReadFile(fs, parquet_files[1])
       IN  \/ /\ calls' = calls \o
                     << Call("read_table", parquet_files[1], TRUE),
                        Call("create_table", table_identifier, TRUE) >>
              /\ catalog' = [catalog EXCEPT !.table = TRUE,
                                            !.schema = first_parquet.schema,
                                            !.files = <<>>]
              /\ stdout' = Append(stdout, Line("CREATE CATALOG TABLE", parquet_files[1]))
              /\ i' = 1
              /\ pc' = "add"
              /\ UNCHANGED <<exit_code, unhandled, fs>>
           \/ /\ calls' = Append(calls, Call("read_table", parquet_files[1], FALSE))
              /\ Raise("ArrowInvalid", fs)
              /\ UNCHANGED <<catalog, i>>
    /\ UNCHANGED <<args, s3, resp, j, staging, staging0, parquet_files, catalog0>>

\* lines 190-197
CreateTable ==
    /\ pc = "create_table"
    /\ LET first_parquet == ReadFile(fs, parquet_files[1])
       IN  \/ /\ calls' = calls \o
                     << Call("read_table", parquet_files[1], TRUE),
                        Call("create_table", table_identifier, TRUE) >>
              /\ catalog' = [catalog EXCEPT !.table = TRUE,
                                            !.schema = first_parquet.schema,
                                            !.files = <<>>]
              /\ stdout' = Append(stdout, Line("CREATE CATALOG TABLE", parquet_files[1]))
              /\ i' = 1
              /\ pc' = "fix"
              /\ UNCHANGED <<exit_code, unhandled, fs>>
           \/ /\ calls' = Append(calls, Call("read_table", parquet_files[1], FALSE))
              /\ Raise("ArrowInvalid", fs)
              /\ UNCHANGED <<catalog, i>>
           \/ /\ calls' = calls \o
                     << Call("read_table", parquet_files[1], TRUE),
                        Call("create_table", table_identifier, FALSE) >>
              /\ Raise("CatalogError", fs)
              /\ UNCHANGED <<catalog, i>>
    /\ UNCHANGED <<args, s3, resp, j, staging, parquet_files, catalog0, staging0>>

\* line 201: fix_decimal_physical_type(file), lines 119-136
FixDecimalPhysicalType ==
    /\ pc = "fix"
    /\ i <= Len(parquet_files)
    /\ LET file == parquet_files[i]
           table == ReadFile(fs, file)
       IN  \/ /\ calls' = Append(calls, Call("read_table", file, FALSE))
              /\ Raise("ArrowInvalid", fs)
           \/ /\ fixed_columns(table.schema) = <<>>
              /\ calls' = Append(calls, Call("read_table", file, TRUE))
              /\ pc' = "add"
              /\ UNCHANGED <<exit_code, unhandled, stdout, fs>>
           \/ /\ fixed_columns(table.schema) # <<>>
              /\ calls' = calls \o << Call("read_table", file, TRUE),
                                      Call("write_table", file, TRUE) >>
              /\ stdout' = Append(stdout, Line("FIXING", file))
              /\ fs' = WriteFile(fs, file, rewritten(table))
              /\ pc' = "add"
              /\ UNCHANGED <<exit_code, unhandled>>
           \/ /\ fixed_columns(table.schema) # <<>>
              /\ calls' = calls \o << Call("read_table", file, TRUE),
                                      Call("write_table", file, FALSE) >>
              /\ \E left \in {table, Truncated} :
                    Exit(1, <<"OSError">>, <<Line("FIXING", file)>>,
                         WriteFile(fs, file, left))
    /\ UNCHANGED <<args, s3, resp, j, staging, parquet_files, i, catalog, catalog0, staging0>>

\* AddFiles inside a try/except that goes on with the next file
AddFilesSkipOnError ==
    /\ pc = "add"
    /\ LET file == parquet_files[i]
       IN  /\ \/ /\ calls' = Append(calls, Call("add_files", file, TRUE))
                 /\ catalog' = [catalog EXCEPT !.files = Append(@, file)]
              \/ /\ calls' = Append(calls, Call("add_files", file, FALSE))
                 /\ UNCHANGED catalog
           /\ stdout' = Append(stdout, Line("UPLOAD", file))
           /\ i' = i + 1
           /\ pc' = "fix"
           /\ UNCHANGED <<exit_code, unhandled, fs>>
    /\ UNCHANGED <<args, s3, resp, j, staging, staging0, parquet_files, catalog0>>

\* lines 202-203
AddFiles ==
    /\ pc = "add"
    /\ LET file == parquet_files[i]
       IN  \/ /\ calls' = Append(calls, Call("add_files", file, TRUE))
              /\ catalog' = [catalog EXCEPT !.files = Append(@, file)]
              /\ stdout' = Append(stdout, Line("UPLOAD", file))
              /\ i' = i + 1
              /\ pc' = "fix"
              /\ UNCHANGED <<exit_code, unhandled, fs>>
           \/ /\ calls' = Append(calls, Call("add_files", file, FALSE))
              /\ Exit(1, <<"CatalogError">>, <<Line("UPLOAD", file)>>, fs)
              /\ UNCHANGED <<catalog, i>>
    /\ UNCHANGED <<args, s3, resp, j, staging, parquet_files, catalog0, staging0>>

\* the loop of line 200 is over: the loader returns, the with block (if any)
\* is left and the script ends
LoaderReturn ==
    /\ pc = "fix"
    /\ i > Len(parquet_files)
    /\ Exit(0, None, <<>>, fs)
    /\ UNCHANGED <<args, s3, resp, j, staging, parquet_files, i, catalog,
                   catalog0, calls, staging0>>

Next ==
    \/ ListOnlyCheck
    \/ ListOnly
    \/ NamespaceCheck
    \/ Connect
    \/ LocalSource
    \/ OpenStaging
    \/ NoSource
    \/ DownloadList
    \/ DownloadObject
    \/ DownloadReturn
    \/ LoaderEntry
    \/ CreateNamespace
    \/ TableExists
    \/ CreateTable
    \/ FixDecimalPhysicalType
    \/ AddFiles
    \/ LoaderReturn

Spec == Init /\ [][Next]_vars


-----------------------------------------------------------------------------
(* What the properties speak of *)

Last(seq) == seq[Len(seq)]

\* an option that was given on the command line with a value
Given(v) == v # SUPPRESS /\ v # None

\* the positions of calls at which op was called
CallsTo(op) == {n \in DOMAIN calls : calls[n].op = op}

\* the positions of calls at which op was called on arg
CallsOn(op, arg) == {n \in CallsTo(op) : calls[n].arg = arg}

\* the four operations of the catalog
CatalogOps ==
    {"create_namespace_if_not_exists", "table_exists", "create_table", "add_files"}

\* add_parquets_to_catalog has been called (line 237 or 241)
LoaderCalled ==
    /\ staging.kind # "none"
    /\ \E n \in CallsOn("listdir", staging.path) : calls[n].ok

\* the files add_files has registered in this run, in order
Registered ==
    LET done == SelectSeq(calls, LAMBDA c : c.op = "add_files" /\ c.ok)
    IN  [n \in DOMAIN done |-> done[n].arg]

\* the schema has a decimal column of precision at most 18
Qualifies(schema) ==
    \E n \in DOMAIN schema :
        schema[n].type \in {"decimal128", "decimal256"} /\ schema[n].precision < 19

-----------------------------------------------------------------------------
(* Properties *)

\* C1: a run with --local-path, --namespace and --table-name, not list-only,
\* on a directory that holds at least one parquet file and with no table in
\* the catalog, ends with the table created from the first file's schema and
\* every listed file registered, in listing order.
C1_LocalRunLoadsEveryFile ==
    ( /\ pc = "done"
      /\ ~args.list_only
      /\ Given(args.local_path) /\ Given(args.namespace) /\ Given(args.table_name)
      /\ unhandled = None
      /\ parquet_files # <<>>
      /\ ~catalog0.table )
    => /\ catalog.table
       /\ catalog.files = parquet_files

\* C2: when the loader is called for a table the catalog already holds,
\* neither create_table nor add_files is called, the table keeps its schema
\* and its files, and the run ends with exit code 1 and an error reported:
\* the "already exists" (or "no files") line, unless a catalog call raised.
C2_ExistingTableAborts ==
    (LoaderCalled /\ catalog0.table)
    => /\ CallsTo("create_table") = {}
       /\ CallsTo("add_files") = {}
       /\ catalog.table
       /\ catalog.files = catalog0.files
       /\ catalog.schema = catalog0.schema
       /\ pc \in {"loader", "create_namespace", "table_exists", "done"}
       /\ pc = "done" =>
            /\ exit_code = 1
            /\ unhandled = None => Last(stdout).tag = "ERROR"
            /\ (unhandled = None /\ parquet_files # <<>>)
                  => Last(stdout) = Line("ERROR", <<"already exists">>)

C2_Witness ==
    /\ pc = "done"
    /\ LoaderCalled
    /\ catalog0.table
    /\ Len(parquet_files) >= 2
    /\ unhandled = None
    /\ exit_code = 1
    /\ CallsTo("table_exists") # {}

\* C3: when the loader is called with an empty file sequence, no catalog
\* operation is made, the catalog is as it was, and the run ends with the
\* "no files" error reported and exit code 1.
C3_NoFilesAborts ==
    (LoaderCalled /\ parquet_files = <<>>)
    => /\ \A op \in CatalogOps : CallsTo(op) = {}
       /\ catalog = catalog0
       /\ pc \in {"loader", "done"}
       /\ pc = "done" =>
            /\ exit_code = 1
            /\ unhandled = None
            /\ Last(stdout) = Line("ERROR", <<"No Parquet files">>)

C3_Witness ==
    /\ pc = "done"
    /\ LoaderCalled
    /\ parquet_files = <<>>
    /\ exit_code = 1
    /\ s3 # {}

\* C4: the files registered so far are a prefix of the input sequence, each
\* file at most once; when the normalizer or add_files fails at file k, the
\* failed call is the last call of the run, the table is there and holds
\* exactly the first k-1 files.
C4_RegisteredIsPrefix ==
    /\ Len(Registered) <= Len(parquet_files)
    /\ Registered = SubSeq(parquet_files, 1, Len(Registered))
    /\ \A a, b \in DOMAIN Registered : Registered[a] = Registered[b] => a = b
    /\ Registered # <<>> => catalog.files = Registered
    /\ \A n \in DOMAIN calls :
         ( /\ ~calls[n].ok
           /\ calls[n].op \in {"read_table", "write_table", "add_files"}
           /\ CallsTo("create_table") # {}
           /\ \A m \in CallsTo("create_table") : calls[m].ok /\ m < n )
         => /\ n = Len(calls)
            /\ pc = "done"
            /\ catalog.table
            /\ \E k \in DOMAIN parquet_files :
                 /\ calls[n].arg = parquet_files[k]
                 /\ catalog.files = SubSeq(parquet_files, 1, k - 1)

C4_Witness ==
    /\ pc = "done"
    /\ unhandled # None
    /\ Len(parquet_files) = 3
    /\ Len(catalog.files) = 1
    /\ ~catalog0.table
    /\ ~Last(calls).ok
    /\ Last(calls).op = "add_files"

\* C5: once a bucket+prefix run has ended, on any exit path, the temporary
\* staging directory is gone; a directory given with --directory is there
\* from the moment the run opened it, and still there when the run has ended.
C5_StagingLifetime ==
    /\ (pc = "done" /\ staging.kind = "temp") => staging.path \notin DOMAIN fs
    /\ (pc # "done" /\ staging.kind = "temp") => staging.path \in DOMAIN fs
    /\ staging.kind = "user" =>
         /\ staging.path = args.directory
         /\ staging.path \in DOMAIN fs
    /\ staging.kind = "temp" => ~Given(args.directory)

C5_Witness ==
    /\ pc = "done"
    /\ staging.kind = "temp"
    /\ unhandled = <<"CatalogError">>
    /\ Len(catalog.files) = 1

C7_MissingNamespaceIsHandled ==
    ( /\ pc = "done"
      /\ ~args.list_only
      /\ (args.namespace = SUPPRESS \/ args.table_name = SUPPRESS) )
    => /\ exit_code = 1
       /\ unhandled = None
       /\ stdout = <<Line("ERROR", <<"--namespace", "--table-name">>)>>
       /\ calls = <<>>

\* C8: a step of fix_decimal_physical_type on a file writes the file if and
\* only if its schema has a decimal column of precision at most 18; a file
\* with no such column is not written and keeps its content.
C8_RewriteIffSmallDecimal ==
    [][ (pc = "fix" /\ i <= Len(parquet_files)) =>
          LET file == parquet_files[i]
              before == ReadFile(fs, file)
              written == {n \in DOMAIN calls' : n > Len(calls) /\ calls'[n].op = "write_table"}
          IN  /\ written # {} => Qualifies(before.schema)
              /\ \A n \in written : calls'[n].arg = file
              /\ ~Qualifies(before.schema) =>
                   (staging.path \in DOMAIN fs' => fs'[staging.path] = fs[staging.path])
              /\ (Qualifies(before.schema) /\ pc' = "add") =>
                   /\ written # {}
                   /\ fs'[staging.path] =
                        [n \in DOMAIN fs[staging.path] |->
                           IF n = basename(file)
                           THEN [schema |-> before.schema, written |-> "int96"]
                           ELSE fs[staging.path][n]]
      ]_vars

C8_Witness ==
    /\ pc = "add"
    /\ i = 2
    /\ ReadFile(fs, parquet_files[1]).written = "int96"
    /\ ReadFile(fs, parquet_files[2]).schema = <<Field("amt", "decimal128", 19)>>
    /\ ReadFile(fs, parquet_files[2]).written = "source"

C10_DownloadFromS3 ==
    (staging.kind # "none" /\ pc \notin {"download", "download_loop", "done"})
    => LET wanted == {key \in Range(resp) :
                        /\ key[Len(key)] = ".parquet"
                        /\ Len(key) > Len(args.prefix)
                        /\ SubSeq(key, 1, Len(args.prefix) + 1) = args.prefix \o <<"/">>}
           fetched == {calls[n].arg : n \in CallsTo("download_file")}
           names == {n \in DOMAIN staging0 \cup {basename(key) : key \in wanted} :
                        n[Len(n)] = ".parquet"}
       IN  /\ fetched = wanted
           /\ Cardinality(CallsTo("download_file")) = Cardinality(wanted)
           /\ \A key \in wanted : basename(key) \in DOMAIN fs[staging.path]
           /\ DOMAIN fs[staging.path] = DOMAIN staging0 \cup {basename(key) : key \in wanted}
           /\ Range(parquet_files) = {staging.path \o <<"/">> \o n : n \in names}
           /\ Len(parquet_files) = Cardinality(names)

C10_Witness ==
    /\ pc = "loader"
    /\ Len(parquet_files) = 3
    /\ Cardinality(CallsTo("download_file")) = 2
    /\ \E n \in DOMAIN staging0 : EndsWith(n, PARQUET_EXTENSION)

====
